---- MODULE Spec2Model ----
(***************************************************************************)
(* A model of brainscore_vision/metric_helpers/xarray_utils.py:            *)
(*   XarrayRegression   (fit / predict / _package_prediction / _align)     *)
(*   XarrayCorrelation  (__call__)                                         *)
(*   recursive_op                                                          *)
(*   apply_over_dims    (apply_helper, with the joblib worker pool)        *)
(*                                                                         *)
(* Python exceptions are modelled by the name of the exception the line    *)
(* raises: "AssertionError" (a failed assert), "TypeError" (len(None)),    *)
(* "KeyError" (a missing dict key or coordinate), "ValueError" (xarray     *)
(* refusing a construction).  "" means no exception.                       *)
(* An optional Python value is a sequence: <<>> is None, <<x>> is x.       *)
(***************************************************************************)
EXTENDS Integers, Sequences, FiniteSets, TLC

VARIABLES
    \* ---- XarrayRegression instance
    target_neuroid_values,  \* self._target_neuroid_values: <<>> (None) or <<dict>>
    regression,             \* the wrapped strategy: what it has been called with
    lastCall,               \* the last fit/predict call on the instance and its outcome
    lastCompleted,          \* history: target of the last fit that returned normally
    nCalls,                 \* number of calls made on the instance
    fitCalled,              \* history: fit has been called on the instance
    \* ---- XarrayCorrelation
    corrCall,               \* the last __call__ and its outcome
    \* ---- recursive_op
    opCall,                 \* the operands of recursive_op and its outcome
    \* ---- apply_over_dims
    pc,                     \* "idle", "running", "done"
    call,                   \* arguments of the running apply_over_dims call
    stack,                  \* activation records of apply_helper, innermost last
    result,                 \* what apply_over_dims returned / raised
    sawPartial,             \* history: some level had both None and non-None results
    sawOutOfOrder           \* history: some pool finished its invocations out of index order

vars == <<target_neuroid_values, regression, lastCall, lastCompleted, nCalls, fitCalled,
          corrCall, opCall, pc, call, stack, result, sawPartial, sawOutOfOrder>>

applyVars == <<pc, call, stack, result, sawPartial, sawOutOfOrder>>

\* ------------------------------------------------------------------------
\* Generic helpers
\* ------------------------------------------------------------------------
None == <<>>
Some(x) == <<x>>

Range(s) == {s[i] : i \in DOMAIN s}

SeqToSet(s) == Range(s)

\* The permutations of 1..n, as sequences.
Perms(n) == {p \in [1..n -> 1..n] : \A i, j \in 1..n : i # j => p[i] # p[j]}

\* numpy argsort (stable) of a sequence of integers.
ArgSort(labels) ==
    CHOOSE p \in Perms(Len(labels)) :
        \A i, j \in 1..Len(labels) :
            i < j => \/ labels[p[i]] < labels[p[j]]
                     \/ (labels[p[i]] = labels[p[j]] /\ p[i] < p[j])

\* s without its elements equal to x.
Without(s, x) == SelectSeq(s, LAMBDA e : e # x)

\* The position of x in the sequence s (x occurs in s).
IndexOf(s, x) == CHOOSE i \in DOMAIN s : s[i] = x

\* The index tuples of an array of the given shape.
RECURSIVE Idx(_)
Idx(shape) ==
    IF shape = <<>> THEN {<<>>}
    ELSE {<<i>> \o r : i \in 1..Head(shape), r \in Idx(Tail(shape))}

\* s with position i removed / with x inserted at position i.
RemoveAt(s, i) == SubSeq(s, 1, i - 1) \o SubSeq(s, i + 1, Len(s))
InsertAt(s, i, x) == SubSeq(s, 1, i - 1) \o <<x>> \o SubSeq(s, i, Len(s))

RECURSIVE SumSeq(_)
SumSeq(s) == IF s = <<>> THEN 0 ELSE Head(s) + SumSeq(Tail(s))

\* ------------------------------------------------------------------------
\* XarrayRegression
\* ------------------------------------------------------------------------
\* Constructor arguments (brainscore_vision.metric_helpers.Defaults).
expected_dims == <<"presentation", "neuroid">>
neuroid_dim == "neuroid"
stimulus_coord == "stimulus_id"

\* A bound on the number of fit/predict calls made on one instance.
MaxCalls == 3

\* An assembly: its dims, the size of each dim, its coordinates in walk_coords
\* order (name, dims, values) and its array, a function of the index tuples in
\* dims order.  Values of a coordinate are indexed by its first dim (for the
\* two-dim coordinate each value stands for a row).
Coord(name, dims, values) == [name |-> name, dims |-> dims, values |-> values]

Shape(dims, sizes) == [i \in DOMAIN dims |-> sizes[dims[i]]]

\* An array whose entry at index <<i, j>> is base + 10 * i + j.
RECURSIVE Code(_)
Code(idx) == IF idx = <<>> THEN 0 ELSE 10 * Code(SubSeq(idx, 1, Len(idx) - 1)) + idx[Len(idx)]

Sizes == [d \in {"presentation", "neuroid", "time_bin"} |->
             IF d = "time_bin" THEN 1 ELSE 2]

StimA == Coord("stimulus_id", <<"presentation">>, <<2, 1>>)
StimB == Coord("stimulus_id", <<"presentation">>, <<1, 2>>)
NidA == Coord("neuroid_id", <<"neuroid">>, <<"10", "20">>)
NidB == Coord("neuroid_id", <<"neuroid">>, <<"30", "40">>)
AreaA == Coord("area", <<"neuroid">>, <<"V1", "V2">>)
\* a coordinate spanning two dims, one of them the neuroid dim
RfA == Coord("rf", <<"presentation", "neuroid">>, <<"r1", "r2">>)
\* a presentation coordinate that happens to be called like a neuroid coordinate
AreaP == Coord("area", <<"presentation">>, <<"left", "right">>)

Assembly(dims, coords, base) ==
    [dims |-> dims, sizes |-> [d \in SeqToSet(dims) |-> Sizes[d]], coords |-> coords,
     data |-> [idx \in Idx(Shape(dims, Sizes)) |-> base + Code(idx)]]

Sources ==
    { Assembly(<<"presentation", "neuroid">>, <<StimA, NidB>>, 100),
      Assembly(<<"neuroid", "presentation">>, <<StimB>>, 200),
      Assembly(<<"presentation", "neuroid">>, <<StimA, AreaP, NidA>>, 300),
      Assembly(<<"presentation", "neuroid">>, <<StimB, RfA>>, 400),
      Assembly(<<"presentation">>, <<StimA>>, 500),
      Assembly(<<"presentation", "neuroid", "time_bin">>, <<StimB, NidA>>, 600) }

Targets ==
    { Assembly(<<"presentation", "neuroid">>, <<StimA, NidA>>, 1000),
      Assembly(<<"neuroid", "presentation">>, <<StimB, NidB>>, 2000),
      Assembly(<<"presentation", "neuroid">>, <<StimA, NidA, AreaA>>, 3000),
      Assembly(<<"presentation", "neuroid">>, <<StimB>>, 4000),
      Assembly(<<"presentation", "neuroid">>, <<StimA, AreaA, RfA, NidB>>, 5000),
      Assembly(<<"presentation", "neuroid">>, <<StimA, RfA>>, 6000),
      Assembly(<<"neuroid">>, <<NidA>>, 7000),
      Assembly(<<"presentation", "neuroid", "time_bin">>, <<StimA, NidA>>, 8000) }

\* brainio.assemblies.array_is_element(arr, element)
array_is_element(arr, element) == Len(arr) = 1 /\ arr[1] = element

\* The coordinate called name, or None.
CoordNamed(assembly, name) ==
    LET hits == SelectSeq(assembly.coords, LAMBDA c : c.name = name)
    IN  IF hits = <<>> THEN None ELSE Some(hits[1])

\* assembly.transpose(*dims): dims is a permutation of the assembly's dims.
transpose(assembly, dims) ==
    [assembly EXCEPT
        !.dims = dims,
        !.data = [idx \in Idx(Shape(dims, assembly.sizes)) |->
                     assembly.data[[k \in DOMAIN assembly.dims |->
                                       idx[IndexOf(dims, assembly.dims[k])]]]]]

\* _align with its assert left out: the mutant of align.
alignNoAssert(assembly) ==
    IF SeqToSet(assembly.dims) # SeqToSet(expected_dims)
    THEN [err |-> "", assembly |-> [assembly EXCEPT !.dims = expected_dims]]
    ELSE [err |-> "", assembly |-> transpose(assembly, expected_dims)]

\* XarrayRegression._align: the assert, then transpose(*expected_dims).
align(assembly) ==
    IF SeqToSet(assembly.dims) # SeqToSet(expected_dims)
    THEN [err |-> "AssertionError", assembly |-> assembly]
    ELSE [err |-> "", assembly |-> transpose(assembly, expected_dims)]

\* assembly.isel(dim=p) for an index array p: position i along dim now holds
\* what position p[i] held, in the array and in every coordinate on dim.
take(assembly, dim, p) ==
    LET k == IndexOf(assembly.dims, dim)
        pick(c) == IF c.dims # <<>> /\ c.dims[1] = dim
                   THEN [c EXCEPT !.values = [i \in DOMAIN p |-> c.values[p[i]]]]
                   ELSE c
    IN  [assembly EXCEPT
            !.coords = [i \in DOMAIN assembly.coords |-> pick(assembly.coords[i])],
            !.data = [idx \in DOMAIN assembly.data |->
                         assembly.data[[idx EXCEPT ![k] = p[idx[k]]]]]]

\* assembly.sortby(coord) for a 1-D coordinate: the array and every coordinate
\* on the coordinate's dim are reordered by the argsort of its labels; a missing
\* (or not 1-D) coordinate is an error.
sortby(assembly, coord) ==
    LET key == CoordNamed(assembly, coord)
    IN  IF key = None THEN [err |-> "KeyError", assembly |-> assembly]
        ELSE IF Len(key[1].dims) # 1 THEN [err |-> "ValueError", assembly |-> assembly]
        ELSE [err |-> "",
              assembly |-> take(assembly, key[1].dims[1], ArgSort(key[1].values))]

\* fit, lines 29-33: the dict is reset, then filled coordinate by coordinate;
\* the assert stops the loop where it fails, with the dict as filled so far.
RECURSIVE captureLoop(_, _)
captureLoop(coords, captured) ==
    IF coords = <<>> THEN [err |-> "", values |-> captured]
    ELSE LET c == Head(coords)
         IN  IF neuroid_dim \in SeqToSet(c.dims)
             THEN IF ~array_is_element(c.dims, neuroid_dim)
                  THEN [err |-> "AssertionError", values |-> captured]
                  ELSE captureLoop(Tail(coords),
                           [n \in DOMAIN captured \cup {c.name} |->
                               IF n = c.name THEN c.values ELSE captured[n]])
             ELSE captureLoop(Tail(coords), captured)

EmptyDict == [n \in {} |-> <<>>]

\* The outcome of fit(source, target) on an instance whose dict is `before`:
\* the exception, whether self._regression.fit was reached, what it was given,
\* and the dict afterwards.
fitOutcome(before, source, target) ==
    LET s1 == align(source)
        t1 == IF s1.err = "" THEN align(target) ELSE s1
        s2 == IF t1.err = "" THEN sortby(s1.assembly, stimulus_coord) ELSE t1
        t2 == IF s2.err = "" THEN sortby(t1.assembly, stimulus_coord) ELSE s2
    IN  IF t2.err # ""
        THEN [err |-> t2.err, invoked |-> FALSE, args |-> None, values |-> before]
        ELSE LET loop == captureLoop(t2.assembly.coords, EmptyDict)
             IN  [err |-> loop.err, invoked |-> TRUE,
                  args |-> Some(<<s2.assembly, t2.assembly>>),
                  values |-> Some(loop.values)]

\* _package_prediction up to the NeuroidAssembly constructor (lines 42-55): the
\* dims and the coords dict it is given.  `captured` is a dict here.
packageArgs(captured, source) ==
    LET kept == SelectSeq(source.coords, LAMBDA c : ~array_is_element(c.dims, neuroid_dim))
        single == Cardinality(DOMAIN captured) = 1
        neuroid_level_dim == IF single THEN Some(CHOOSE n \in DOMAIN captured : TRUE) ELSE None
        dims == IF single
                THEN [i \in DOMAIN source.dims |->
                         IF source.dims[i] # neuroid_dim THEN source.dims[i]
                         ELSE neuroid_level_dim[1]]
                ELSE source.dims
        axis == IF single THEN neuroid_level_dim[1] ELSE neuroid_dim
        names == {kept[i].name : i \in DOMAIN kept} \cup DOMAIN captured
        fromSource(n) == LET c == CoordNamed([coords |-> kept], n)[1]
                         IN  [dims |-> c.dims, values |-> c.values]
    IN  [dims |-> dims,
         level |-> neuroid_level_dim,
         coords |-> [n \in names |->
                        IF n \in DOMAIN captured
                        THEN [dims |-> <<axis>>, values |-> captured[n]]
                        ELSE fromSource(n)]]

\* prediction.stack(neuroid=[level]): the level dim is replaced by a new last
\* dim called neuroid; the level's coordinate now lies on it.
stack_level(tensor, level) ==
    [dims |-> Without(tensor.dims, level) \o <<neuroid_dim>>,
     coords |-> [n \in DOMAIN tensor.coords |->
                    [tensor.coords[n] EXCEPT
                        !.dims = [i \in DOMAIN @ |-> IF @[i] = level THEN neuroid_dim ELSE @[i]]]]]

\* Lines 56-57 without the stack: the mutant of finishPrediction.
finishWithoutStack(tensor, level) == tensor

\* Lines 56-57.
finishPrediction(tensor, level) ==
    IF level # None THEN stack_level(tensor, level[1]) ELSE tensor

\* The outcome of predict(source) on an instance whose dict is `before`.
\* The strategy's predict is reached as soon as the source is aligned; the
\* packaging then reads len(self._target_neuroid_values).
predictOutcome(before, source) ==
    LET s1 == align(source)
        NoOut == [err |-> "", invoked |-> FALSE, intermediate |-> None, out |-> None]
    IN  IF s1.err # "" THEN [NoOut EXCEPT !.err = s1.err]
        ELSE IF before = None THEN [NoOut EXCEPT !.err = "TypeError", !.invoked = TRUE]
        ELSE LET args == packageArgs(before[1], s1.assembly)
                 \* NeuroidAssembly(...): every coordinate must lie on dims of the array
                 wellFormed == \A n \in DOMAIN args.coords :
                                  SeqToSet(args.coords[n].dims) \subseteq SeqToSet(args.dims)
                 built == [dims |-> args.dims, coords |-> args.coords]
             IN  IF ~wellFormed
                 THEN [NoOut EXCEPT !.err = "ValueError", !.invoked = TRUE]
                 ELSE [err |-> "", invoked |-> TRUE,
                       intermediate |-> Some(built),
                       out |-> Some(finishPrediction(built, args.level))]

\* The coordinates (name -> labels) of a packaged tensor that index the axis dim.
CoordsOn(tensor, dim) ==
    LET names == {n \in DOMAIN tensor.coords : array_is_element(tensor.coords[n].dims, dim)}
    IN  [n \in names |-> tensor.coords[n].values]

\* The coordinates (name -> labels) that index the neuroid axis of an input assembly.
NeuroidCoordsOf(assembly) ==
    LET on == SelectSeq(assembly.coords, LAMBDA c : array_is_element(c.dims, neuroid_dim))
    IN  [n \in {on[i].name : i \in DOMAIN on} |-> CoordNamed([coords |-> on], n)[1].values]

NoCall == [op |-> "none", source |-> None, target |-> None, err |-> "",
           fit_invoked |-> FALSE, predict_invoked |-> FALSE,
           intermediate |-> None, out |-> None]

\* __init__ starting from an empty dict instead of None: the mutant of RegressionInit.
RegressionInitEmptyDict ==
    /\ target_neuroid_values = Some(EmptyDict)
    /\ regression = [fit_calls |-> 0, predict_calls |-> 0, fitted_with |-> None]
    /\ lastCall = NoCall
    /\ lastCompleted = None
    /\ nCalls = 0
    /\ fitCalled = FALSE

\* XarrayRegression.__init__
RegressionInit ==
    /\ target_neuroid_values = None
    /\ regression = [fit_calls |-> 0, predict_calls |-> 0, fitted_with |-> None]
    /\ lastCall = NoCall
    /\ lastCompleted = None
    /\ nCalls = 0
    /\ fitCalled = FALSE

\* XarrayRegression.fit(source, target)
Fit(source, target) ==
    /\ nCalls < MaxCalls
    /\ LET o == fitOutcome(target_neuroid_values, source, target)
       IN  /\ target_neuroid_values' = o.values
           /\ regression' = IF o.invoked
                            THEN [regression EXCEPT !.fit_calls = @ + 1, !.fitted_with = o.args]
                            ELSE regression
           /\ lastCall' = [NoCall EXCEPT !.op = "fit", !.source = Some(source),
                               !.target = Some(target), !.err = o.err,
                               !.fit_invoked = o.invoked]
           /\ lastCompleted' = IF o.err = "" THEN Some(target) ELSE lastCompleted
    /\ nCalls' = nCalls + 1
    /\ fitCalled' = TRUE

\* XarrayRegression.predict(source)
Predict(source) ==
    /\ nCalls < MaxCalls
    /\ LET o == predictOutcome(target_neuroid_values, source)
       IN  /\ regression' = IF o.invoked
                            THEN [regression EXCEPT !.predict_calls = @ + 1]
                            ELSE regression
           /\ lastCall' = [NoCall EXCEPT !.op = "predict", !.source = Some(source),
                               !.err = o.err, !.predict_invoked = o.invoked,
                               !.intermediate = o.intermediate, !.out = o.out]
    /\ nCalls' = nCalls + 1
    /\ UNCHANGED <<target_neuroid_values, lastCompleted, fitCalled>>

\* ------------------------------------------------------------------------
\* XarrayCorrelation
\* ------------------------------------------------------------------------
\* Constructor arguments (Defaults.stimulus_coord, Defaults.neuroid_coord).
correlation_coord == "stimulus_id"
neuroid_coord == "neuroid_id"

\* Bounds: the number of stimuli and of neuroids of the compared assemblies.
NStim == 2
NNeur == 2

CorrSizes == [d \in {"presentation", "neuroid"} |->
                 IF d = "presentation" THEN NStim ELSE NNeur]

RegionOf(n) == IF n % 2 = 1 THEN "V1" ELSE "V2"

\* An assembly over stimuli and neuroids whose entry for stimulus label s and
\* neuroid label n is gen[s][n], stored with the stimuli in the order sp and the
\* neuroids in the order np (sequences of labels).  withRegion adds a second
\* coordinate on the neuroid dim.
CorrAssembly(dims, sp, np, gen, withRegion) ==
    LET label(idx, d) == IF d = "presentation" THEN sp[idx[IndexOf(dims, d)]]
                         ELSE np[idx[IndexOf(dims, d)]]
    IN  [dims |-> dims,
         sizes |-> CorrSizes,
         coords |-> <<Coord("stimulus_id", <<"presentation">>, sp),
                      Coord("neuroid_id", <<"neuroid">>, np)>>
                    \o (IF withRegion
                        THEN <<Coord("region", <<"neuroid">>,
                                     [i \in DOMAIN np |-> RegionOf(np[i])])>>
                        ELSE <<>>),
         data |-> [idx \in Idx(Shape(dims, CorrSizes)) |->
                      gen[label(idx, "presentation")][label(idx, "neuroid")]]]

DimOrders == {<<"presentation", "neuroid">>, <<"neuroid", "presentation">>}

\* Label sequences: the labels 1..n (or, shifted, 2..n+1) in any order.
LabelOrders(n, shift) == {[i \in 1..n |-> p[i] + shift] : p \in Perms(n)}

TargetGen == [s \in 1..(NStim + 1) |-> [n \in 1..(NNeur + 1) |-> s + 2 * n]]
PredictionGen(v) == [s \in 1..(NStim + 1) |-> [n \in 1..(NNeur + 1) |-> (s * n + v) % 5]]

CorrTargets ==
    {CorrAssembly(d, sp, np, TargetGen, TRUE) :
        d \in DimOrders, sp \in LabelOrders(NStim, 0), np \in LabelOrders(NNeur, 0)}

CorrPredictions ==
    {CorrAssembly(d, sp, np, PredictionGen(v), FALSE) :
        d \in DimOrders, sp \in LabelOrders(NStim, 0),
        np \in LabelOrders(NNeur, 0) \cup LabelOrders(NNeur, 1), v \in {0, 1}}

\* assembly.isel(dim=i) for an integer i: the dim is dropped, its coordinates
\* become scalars (dims <<>>, the one label kept).
isel(assembly, dim, i) ==
    LET k == IndexOf(assembly.dims, dim)
        dims == RemoveAt(assembly.dims, k)
        fix(c) == IF c.dims # <<>> /\ c.dims[1] = dim
                  THEN [c EXCEPT !.dims = <<>>, !.values = <<c.values[i]>>]
                  ELSE c
    IN  [dims |-> dims,
         sizes |-> [d \in SeqToSet(dims) |-> assembly.sizes[d]],
         coords |-> [j \in DOMAIN assembly.coords |-> fix(assembly.coords[j])],
         data |-> [idx \in Idx(Shape(dims, assembly.sizes)) |->
                      assembly.data[InsertAt(idx, k, i)]]]

\* The wrapped comparison strategy, on two 1-D slices: a statistic r (here the
\* dot product of the two arrays, never negative on the inputs used) and a
\* second value p (here -1 - r, always negative).
correlation(a, b) ==
    LET n == Cardinality(DOMAIN a.data)
        r == SumSeq([k \in 1..n |-> a.data[<<k>>] * b.data[<<k>>]])
    IN  <<r, -1 - r>>

\* Lines 82-87 keeping p instead of r: the mutant of correlations.
correlationsKeepingP(prediction, target, dim, n) ==
    [i \in 1..n |-> correlation(isel(target, dim, i), isel(prediction, dim, i))[2]]

\* Lines 82-87: the list of r, one per index of the neuroid coordinate.
correlations(prediction, target, dim, n) ==
    [i \in 1..n |-> correlation(isel(target, dim, i), isel(prediction, dim, i))[1]]

\* prediction.sortby([coord1, coord2]) with the two coordinates on different dims.
sortby2(assembly, coord1, coord2) ==
    LET first == sortby(assembly, coord1)
    IN  IF first.err # "" THEN first ELSE sortby(first.assembly, coord2)

\* XarrayCorrelation.__call__(prediction, target)
correlationCall(prediction, target) ==
    LET ps == sortby2(prediction, correlation_coord, neuroid_coord)
        ts == sortby2(target, correlation_coord, neuroid_coord)
        Fail(e) == [err |-> e, out |-> None]
    IN  IF ps.err # "" THEN Fail(ps.err)
        ELSE IF ts.err # "" THEN Fail(ts.err)
        ELSE LET pa == ps.assembly
                 ta == ts.assembly
                 values(a, c) == CoordNamed(a, c)[1].values
             IN  IF values(pa, correlation_coord) # values(ta, correlation_coord)
                 THEN Fail("AssertionError")
                 ELSE IF values(pa, neuroid_coord) # values(ta, neuroid_coord)
                 THEN Fail("AssertionError")
                 ELSE LET neuroid_dims == CoordNamed(ta, neuroid_coord)[1].dims
                      IN  IF Len(neuroid_dims) # 1 THEN Fail("AssertionError")
                          ELSE LET kept == SelectSeq(ta.coords,
                                                     LAMBDA c : c.dims = neuroid_dims)
                               IN  [err |-> "",
                                    out |-> Some(
                                      [dims |-> neuroid_dims,
                                       values |-> correlations(pa, ta, neuroid_dims[1],
                                                    Len(values(ta, neuroid_coord))),
                                       coords |-> [c \in {kept[i].name : i \in DOMAIN kept} |->
                                           [dims |-> neuroid_dims,
                                            values |-> CoordNamed([coords |-> kept], c)[1].values]]])]

CorrelationInit == corrCall = None

\* One call of the adapter.
Correlate(prediction, target) ==
    /\ corrCall = None
    /\ LET o == correlationCall(prediction, target)
       IN  corrCall' = Some([prediction |-> prediction, target |-> target,
                             err |-> o.err, out |-> o.out])

\* ------------------------------------------------------------------------
\* recursive_op
\* ------------------------------------------------------------------------
\* An xr.DataArray: dims, the size of each dim, the labels of the dims that have
\* an index coordinate, the scalar coordinates left by isel (dim -> label), the
\* array (a function of the index tuples in dims order) and attrs (name ->
\* value).  A value that is no DataArray is NonArray(v).
DataArray(dims, sizes, labels, scalars, data, attrs) ==
    [isDataArray |-> TRUE, dims |-> dims, sizes |-> sizes, labels |-> labels,
     scalars |-> scalars, data |-> data, attrs |-> attrs]

NonArray(v) == [isDataArray |-> FALSE, value |-> v]

NoAttrs == [n \in {} |-> NonArray("")]
NoScalars == [d \in {} |-> 0]

\* Bounds on the attribute trees of the operands: depth and number of
\* attribute DataArrays in a tree.
MaxAttrDepth == 2
MaxAttrs == 2

AttrNames == {"a", "b"}

\* An attribute tree is given by the paths (sequences of names) of its nodes.
AttrPaths == UNION {[1..d -> AttrNames] : d \in 1..MaxAttrDepth}

TreeShapes ==
    {P \in SUBSET AttrPaths :
        /\ Cardinality(P) <= MaxAttrs
        /\ \A q \in P : Len(q) > 1 => SubSeq(q, 1, Len(q) - 1) \in P}

\* A 1-D DataArray with entries base+1, base+2 and the attribute tree P.
RECURSIVE Operand(_, _)
Operand(P, base) ==
    DataArray(<<"x">>, [d \in {"x"} |-> 2], [d \in {"x"} |-> <<1, 2>>], NoScalars,
              [idx \in Idx(<<2>>) |-> base + idx[1]],
              [n \in {q[1] : q \in P} |->
                  Operand({Tail(q) : q \in {r \in P : r[1] = n /\ Len(r) > 1}},
                          10 * base + (IF n = "a" THEN 10 ELSE 20))])

\* The operand with one more attribute, "note", that is no DataArray.
WithNote(arr) ==
    [arr EXCEPT !.attrs = [n \in DOMAIN arr.attrs \cup {"note"} |->
                              IF n = "note" THEN NonArray("text") ELSE arr.attrs[n]]]

Operands ==
    {Operand(P, 0) : P \in TreeShapes} \cup {WithNote(Operand(P, 0)) : P \in TreeShapes}

\* op(*arrs): "identity" is the default lambda x: x (one operand, returned as it
\* is); "add" is the sum of the operands, whose result xarray gives no attrs.
applyOp(op, arrs) ==
    IF op = "identity"
    THEN IF Len(arrs) = 1 THEN [err |-> "", val |-> arrs[1]]
         ELSE [err |-> "TypeError", val |-> arrs[1]]
    ELSE IF \E i \in DOMAIN arrs : ~arrs[i].isDataArray
    THEN [err |-> "TypeError", val |-> arrs[1]]
    ELSE [err |-> "",
          val |-> [arrs[1] EXCEPT
                      !.data = [idx \in DOMAIN arrs[1].data |->
                                   SumSeq([i \in DOMAIN arrs |-> arrs[i].data[idx]])],
                      !.attrs = NoAttrs]]

\* recursive_op(*arrs, op=op); the attrs are walked in the first operand's
\* order, a missing key in another operand is a KeyError.
RECURSIVE recursive_op(_, _)
recursive_op(arrs, op) ==
    LET top == applyOp(op, arrs)
        attrs == arrs[1].attrs
        missing(a) == \E i \in DOMAIN arrs : a \notin DOMAIN arrs[i].attrs
        sub(a) == recursive_op([i \in DOMAIN arrs |-> arrs[i].attrs[a]], op)
        failing == {a \in DOMAIN attrs :
                       attrs[a].isDataArray /\ (missing(a) \/ sub(a).err # "")}
    IN  IF top.err # "" THEN top
        ELSE IF failing # {}
        THEN LET a == CHOOSE x \in failing : TRUE
             IN  [err |-> IF missing(a) THEN "KeyError" ELSE sub(a).err, val |-> top.val]
        ELSE [err |-> "",
              val |-> [top.val EXCEPT
                  !.attrs = [a \in DOMAIN top.val.attrs \cup DOMAIN attrs |->
                                IF a \in DOMAIN attrs
                                THEN IF attrs[a].isDataArray THEN sub(a).val ELSE attrs[a]
                                ELSE top.val.attrs[a]]]]

CombineInit == opCall = None

\* One call of recursive_op.
Combine(arrs, op) ==
    /\ opCall = None
    /\ LET o == recursive_op(arrs, op)
       IN  opCall' = Some([arrs |-> arrs, op |-> op, err |-> o.err,
                           out |-> IF o.err = "" THEN Some(o.val) ELSE None])

\* ------------------------------------------------------------------------
\* apply_over_dims: the DataArray operations it uses
\* ------------------------------------------------------------------------
ShapeOf(arr) == Shape(arr.dims, arr.sizes)

\* asm.transpose(*dims, ...): the named dims first, the others in their order.
da_transpose(arr, dims) ==
    LET order == dims \o SelectSeq(arr.dims, LAMBDA d : d \notin SeqToSet(dims))
    IN  [arr EXCEPT
            !.dims = order,
            !.data = [idx \in Idx(Shape(order, arr.sizes)) |->
                         arr.data[[k \in DOMAIN arr.dims |->
                                      idx[IndexOf(order, arr.dims[k])]]]]]

\* isel that takes the entries of the index before s (an off-by-one): the
\* mutant of da_isel.
da_iselOffByOne(arr, dim, s) ==
    LET k == IndexOf(arr.dims, dim)
        dims == RemoveAt(arr.dims, k)
    IN  [arr EXCEPT
            !.dims = dims,
            !.sizes = [d \in SeqToSet(dims) |-> arr.sizes[d]],
            !.labels = [d \in DOMAIN arr.labels \ {dim} |-> arr.labels[d]],
            !.scalars = [d \in DOMAIN arr.scalars \cup (DOMAIN arr.labels \cap {dim}) |->
                            IF d = dim THEN arr.labels[dim][s] ELSE arr.scalars[d]],
            !.data = [idx \in Idx(Shape(dims, arr.sizes)) |->
                         arr.data[InsertAt(idx, k, IF s > 1 THEN s - 1 ELSE s)]]]

\* asm.isel({dim: s}): the dim is dropped and its label stays as a scalar
\* coordinate; attrs are kept as they are.
da_isel(arr, dim, s) ==
    LET k == IndexOf(arr.dims, dim)
        dims == RemoveAt(arr.dims, k)
        rest == SeqToSet(dims)
    IN  [arr EXCEPT
            !.dims = dims,
            !.sizes = [d \in rest |-> arr.sizes[d]],
            !.labels = [d \in DOMAIN arr.labels \ {dim} |-> arr.labels[d]],
            !.scalars = [d \in DOMAIN arr.scalars \cup (DOMAIN arr.labels \cap {dim}) |->
                            IF d = dim THEN arr.labels[dim][s] ELSE arr.scalars[d]],
            !.data = [idx \in Idx(Shape(dims, arr.sizes)) |->
                         arr.data[InsertAt(idx, k, s)]]]

\* v.expand_dims(dim): a new leading dim of size one (labelled by the scalar
\* coordinate of that name, if there is one); refused when the dim exists.
expand_dims(v, dim) ==
    IF dim \in SeqToSet(v.dims) THEN [err |-> "ValueError", val |-> v]
    ELSE [err |-> "",
          val |-> [v EXCEPT
              !.dims = <<dim>> \o v.dims,
              !.sizes = [d \in SeqToSet(v.dims) \cup {dim} |->
                            IF d = dim THEN 1 ELSE v.sizes[d]],
              !.labels = [d \in DOMAIN v.labels \cup (DOMAIN v.scalars \cap {dim}) |->
                             IF d = dim THEN <<v.scalars[dim]>> ELSE v.labels[d]],
              !.scalars = [d \in DOMAIN v.scalars \ {dim} |-> v.scalars[d]],
              !.data = [idx \in Idx(<<1>> \o ShapeOf(v)) |-> v.data[Tail(idx)]]]]

RECURSIVE ConcatSeqs(_)
ConcatSeqs(ss) == IF ss = <<>> THEN <<>> ELSE Head(ss) \o ConcatSeqs(Tail(ss))

\* xr.concat(parts, dim=dim) of a non-empty list.  A part without the dim is
\* expanded first.  The dim's labels are the parts' labels in list order, the
\* other coordinates and the attrs are the first part's; a scalar coordinate
\* stays only if all parts agree on it.  Parts of different layouts are refused.
concat(parts, dim) ==
    LET ex == [i \in DOMAIN parts |->
                  IF dim \in SeqToSet(parts[i].dims) THEN [err |-> "", val |-> parts[i]]
                  ELSE expand_dims(parts[i], dim)]
        ps == [i \in DOMAIN parts |-> ex[i].val]
        first == ps[1]
        k == IndexOf(first.dims, dim)
        alike == \A i \in DOMAIN ps :
                    /\ ps[i].dims = first.dims
                    /\ \A d \in SeqToSet(first.dims) \ {dim} : ps[i].sizes[d] = first.sizes[d]
        offset(i) == SumSeq([j \in 1..(i - 1) |-> ps[j].sizes[dim]])
        total == offset(Len(ps) + 1)
        sizes == [first.sizes EXCEPT ![dim] = total]
        partOf(x) == CHOOSE i \in DOMAIN ps : offset(i) < x /\ x <= offset(i + 1)
        labelled == \A i \in DOMAIN ps : dim \in DOMAIN ps[i].labels
        shared == {d \in DOMAIN first.scalars :
                      \A i \in DOMAIN ps : d \in DOMAIN ps[i].scalars
                                           /\ ps[i].scalars[d] = first.scalars[d]}
    IN  IF ~alike THEN [err |-> "ValueError", val |-> first]
        ELSE [err |-> "",
              val |-> [first EXCEPT
                  !.sizes = sizes,
                  !.labels = [d \in (DOMAIN first.labels \ {dim})
                                     \cup (IF labelled THEN {dim} ELSE {}) |->
                                 IF d = dim
                                 THEN ConcatSeqs([i \in DOMAIN ps |-> ps[i].labels[dim]])
                                 ELSE first.labels[d]],
                  !.scalars = [d \in shared |-> first.scalars[d]],
                  !.data = [idx \in Idx(Shape(first.dims, sizes)) |->
                               LET i == partOf(idx[k])
                               IN  ps[i].data[[idx EXCEPT ![k] = @ - offset(i)]]]]]

\* xarr.coords[dim] = asm0.coords[dim]: the dim's labels are replaced by those of
\* asm0, which must be as many as the dim is long; asm0's scalar coordinates
\* come along where xarr has none of that name.
assign_dim_coord(xarr, dim, asm0) ==
    IF Len(asm0.labels[dim]) # xarr.sizes[dim] THEN [err |-> "ValueError", val |-> xarr]
    ELSE [err |-> "",
          val |-> [xarr EXCEPT
              !.labels = [d \in DOMAIN xarr.labels \cup {dim} |->
                             IF d = dim THEN asm0.labels[dim] ELSE xarr.labels[d]],
              !.scalars = [d \in DOMAIN xarr.scalars \cup DOMAIN asm0.scalars |->
                              IF d \in DOMAIN xarr.scalars THEN xarr.scalars[d]
                              ELSE asm0.scalars[d]]]]

\* ------------------------------------------------------------------------
\* apply_over_dims
\* ------------------------------------------------------------------------
\* Bounds: the sizes of the two axes of the input assemblies and the largest
\* number of workers (njobs) of the pool.
NumStimuli == 3
NumNeuroids == 2
MaxJobs == 3

ApplySizes == [d \in {"stimulus", "neuroid", "feature"} |->
                  IF d = "stimulus" THEN NumStimuli
                  ELSE IF d = "neuroid" THEN NumNeuroids ELSE 2]

ApplyLabels == [d \in {"stimulus", "neuroid", "feature"} |->
                   [i \in 1..ApplySizes[d] |->
                       IF d = "stimulus" THEN 10 * i
                       ELSE IF d = "neuroid" THEN 100 * i ELSE 1000 * i]]

\* An assembly over the given dims whose entry at <<i, j>> is
\* base + NumNeuroids * (i - 1) + j for dims <<stimulus, neuroid>>: 1, 2 / 3, 4 / 5, 6.
Labeled(dims, base, attrs) ==
    LET at(idx, d) == IF d \in SeqToSet(dims) THEN idx[IndexOf(dims, d)] ELSE 1
    IN  DataArray(dims, [d \in SeqToSet(dims) |-> ApplySizes[d]],
                  [d \in SeqToSet(dims) |-> ApplyLabels[d]], NoScalars,
                  [idx \in Idx(Shape(dims, ApplySizes)) |->
                      base + NumNeuroids * (at(idx, "stimulus") - 1) + at(idx, "neuroid")
                           + 50 * (at(idx, "feature") - 1)],
                  attrs)

OneAttr(name, v) == [n \in {name} |-> v]

Plain == Labeled(<<"stimulus", "neuroid">>, 0, NoAttrs)
Stored == Labeled(<<"neuroid", "stimulus">>, 0, NoAttrs)
\* attrs: a DataArray over another dim, itself with an attribute DataArray
WithMeta == Labeled(<<"stimulus", "neuroid">>, 0,
                OneAttr("meta", Labeled(<<"feature">>, 500,
                                    OneAttr("unit", Labeled(<<"feature">>, 700, NoAttrs)))))
\* attrs: a DataArray over one of the assembly's own dims
WithCeiling == Labeled(<<"stimulus", "neuroid">>, 0,
                   OneAttr("ceiling", Labeled(<<"neuroid">>, 900, NoAttrs)))
\* attrs: a value that is no DataArray
WithNoteAttr == Labeled(<<"stimulus", "neuroid">>, 0, OneAttr("note", NonArray("text")))

ApplyInputs == {Plain, Stored, WithMeta, WithCeiling, WithNoteAttr}

\* The lists of dims to walk: the non-empty lists of distinct dims of the inputs.
WalkedDims == {<<"stimulus">>, <<"neuroid">>, <<"stimulus", "neuroid">>,
               <<"neuroid", "stimulus">>}

Callables == {"identity", "sum", "annotate", "none", "skip"}

RECURSIVE SumSet(_, _)
SumSet(f, S) == IF S = {} THEN 0
                ELSE LET x == CHOOSE y \in S : TRUE IN f[x] + SumSet(f, S \ {x})

\* x.sum(): a 0-d DataArray; the scalar coordinates stay, attrs do not.
da_sum(x) ==
    [x EXCEPT !.dims = <<>>, !.sizes = [d \in {} |-> 0], !.labels = [d \in {} |-> <<>>],
              !.data = [idx \in {<<>>} |-> SumSet(x.data, DOMAIN x.data)],
              !.attrs = NoAttrs]

\* The first entry of the slice, as a 0-d DataArray of its own.
da_first(x) ==
    [da_sum(x) EXCEPT !.data = [idx \in {<<>>} |-> x.data[[k \in DOMAIN x.dims |-> 1]]],
                      !.scalars = NoScalars]

\* The callables handed to apply_over_dims, on the slices of one invocation:
\*   identity   lambda x: x
\*   sum        lambda x: x.sum()
\*   annotate   the sum, with the slice's first entry attached as attrs["first"]
\*   none       lambda x: None
\*   skip       None on the slices of the first stimulus, the slice otherwise
invoke(callable, slices) ==
    LET x == slices[1]
    IN  CASE callable = "identity" -> Some(x)
          [] callable = "sum" -> Some(da_sum(x))
          [] callable = "annotate" ->
                Some([da_sum(x) EXCEPT !.attrs = OneAttr("first", da_first(x))])
          [] callable = "none" -> None
          [] callable = "skip" ->
                IF "stimulus" \in DOMAIN x.scalars
                   /\ x.scalars["stimulus"] = ApplyLabels["stimulus"][1]
                THEN None ELSE Some(x)

\* Lines 133-138: the results that are not None, and per attribute name the
\* list of v.expand_dims(dim); the assert and expand_dims may raise.
collect(results, dim) ==
    LET kept == SelectSeq(results, LAMBDA r : r # None)
        xarr == [i \in DOMAIN kept |-> kept[i][1]]
        names == UNION {DOMAIN xarr[i].attrs : i \in DOMAIN xarr}
        having(k) == SelectSeq(xarr, LAMBDA a : k \in DOMAIN a.attrs)
        notArray == \E i \in DOMAIN xarr : \E k \in DOMAIN xarr[i].attrs :
                        ~xarr[i].attrs[k].isDataArray
        clash == \E i \in DOMAIN xarr : \E k \in DOMAIN xarr[i].attrs :
                     dim \in SeqToSet(xarr[i].attrs[k].dims)
    IN  IF notArray THEN [err |-> "AssertionError", xarr |-> xarr, attrs |-> NoAttrs]
        ELSE IF clash THEN [err |-> "ValueError", xarr |-> xarr, attrs |-> NoAttrs]
        ELSE [err |-> "", xarr |-> xarr,
              attrs |-> [k \in names |->
                            [i \in DOMAIN having(k) |->
                                expand_dims(having(k)[i].attrs[k], dim).val]]]

\* Lines 140-141 returning an empty assembly for an empty list: the mutant of
\* reassemble.
reassembleNeverNone(results, dim, asm0) ==
    IF \A i \in DOMAIN results : results[i] = None
    THEN [err |-> "", val |-> Some(da_sum(asm0))]
    ELSE LET c == collect(results, dim)
         IN  [err |-> c.err, val |-> Some(concat(c.xarr, dim).val)]

\* Lines 133-149: what a level of apply_helper returns for the list of its
\* results (None or <<DataArray>> each).
reassemble(results, dim, asm0) ==
    LET c == collect(results, dim)
        Fail(e) == [err |-> e, val |-> None]
    IN  IF c.err # "" THEN Fail(c.err)
        ELSE IF c.xarr = <<>> THEN [err |-> "", val |-> None]
        ELSE LET whole == concat(c.xarr, dim)
                 joined == [k \in DOMAIN c.attrs |-> concat(c.attrs[k], dim)]
                 labelled == IF whole.err = "" THEN assign_dim_coord(whole.val, dim, asm0)
                             ELSE whole
                 attrs == [k \in DOMAIN c.attrs |->
                              IF joined[k].err = ""
                              THEN assign_dim_coord(joined[k].val, dim, asm0)
                              ELSE joined[k]]
             IN  IF whole.err # "" THEN Fail(whole.err)
                 ELSE IF \E k \in DOMAIN joined : joined[k].err # "" THEN Fail("ValueError")
                 ELSE IF labelled.err # "" THEN Fail(labelled.err)
                 ELSE IF \E k \in DOMAIN attrs : attrs[k].err # "" THEN Fail("ValueError")
                 ELSE [err |-> "",
                       val |-> Some([labelled.val EXCEPT
                           !.attrs = [k \in DOMAIN labelled.val.attrs \cup DOMAIN attrs |->
                                         IF k \in DOMAIN attrs THEN attrs[k].val
                                         ELSE labelled.val.attrs[k]]])]

\* An activation of apply_helper(sizes, dims, *asms).  A level with more dims
\* to go fills `results` one recursive call after the other; the last level
\* hands its invocations to the pool: `next` invocations have been dispatched,
\* `running` are being computed, `done` holds what the finished ones returned
\* and `order` the order in which they finished.
Frame(dims, asms) ==
    [dims |-> dims, asms |-> asms, results |-> <<>>, next |-> 0, running |-> {},
     done |-> [i \in {} |-> None], order |-> <<>>]

FrameSize(f) == f.asms[1].sizes[f.dims[1]]

\* The list the pool gives back, taken in the order of completion: the mutant
\* of ParallelResults.
ResultsAsCompleted(f) == [i \in 1..FrameSize(f) |-> f.done[f.order[i]]]

\* Line 126: Parallel(...)(...) returns the results in the order of the
\* generator, whatever the order in which the workers finished.
ParallelResults(f) == [i \in 1..FrameSize(f) |-> f.done[i]]

Top == stack[Len(stack)]

ApplyInit ==
    /\ pc = "idle" /\ call = None /\ stack = <<>> /\ result = None
    /\ sawPartial = FALSE /\ sawOutOfOrder = FALSE

\* apply_over_dims(callable, *asms, dims=dims, njobs=njobs): lines 112-113 and
\* the first call of apply_helper.
ApplyCall(callable, asms, dims, njobs) ==
    /\ pc = "idle"
    /\ pc' = "running"
    /\ call' = Some([callable |-> callable, asms |-> asms, dims |-> dims, njobs |-> njobs])
    /\ stack' = <<Frame(dims, [i \in DOMAIN asms |-> da_transpose(asms[i], dims)])>>
    /\ UNCHANGED <<result, sawPartial, sawOutOfOrder>>

\* Lines 129-130: the next recursive call of a level that has more dims to go.
Descend ==
    /\ pc = "running"
    /\ Len(Top.dims) > 1
    /\ Len(Top.results) < FrameSize(Top)
    /\ LET s == Len(Top.results) + 1
       IN  stack' = Append(stack,
                        Frame(Tail(Top.dims),
                              [i \in DOMAIN Top.asms |-> da_isel(Top.asms[i], Top.dims[1], s)]))
    /\ UNCHANGED <<pc, call, result, sawPartial, sawOutOfOrder>>

\* Line 126: the pool takes the next invocation of the generator when a worker
\* is free.
Dispatch ==
    /\ pc = "running"
    /\ Len(Top.dims) = 1
    /\ Top.next < FrameSize(Top)
    /\ Cardinality(Top.running) < call[1].njobs
    /\ stack' = [stack EXCEPT ![Len(stack)] =
                    [@ EXCEPT !.next = @ + 1, !.running = @ \cup {Top.next + 1}]]
    /\ UNCHANGED <<pc, call, result, sawPartial, sawOutOfOrder>>

\* Line 126: a worker finishes callable(*[asm.isel({dim: s}) for asm in asms]).
Complete(s) ==
    /\ pc = "running"
    /\ Len(Top.dims) = 1
    /\ s \in Top.running
    /\ LET out == invoke(call[1].callable,
                         [i \in DOMAIN Top.asms |-> da_isel(Top.asms[i], Top.dims[1], s)])
       IN  stack' = [stack EXCEPT ![Len(stack)] =
                        [@ EXCEPT !.running = @ \ {s},
                                  !.done = [i \in DOMAIN @ \cup {s} |->
                                               IF i = s THEN out ELSE @[i]],
                                  !.order = Append(@, s)]]
    /\ UNCHANGED <<pc, call, result, sawPartial, sawOutOfOrder>>

\* Lines 133-149 and the return: the level's results are complete (the pool has
\* drained, or the loop has ended); the level is reassembled and returns to its
\* caller, an exception ends the whole call.
Return ==
    /\ pc = "running"
    /\ IF Len(Top.dims) = 1
       THEN DOMAIN Top.done = 1..FrameSize(Top)
       ELSE Len(Top.results) = FrameSize(Top)
    /\ LET results == IF Len(Top.dims) = 1 THEN ParallelResults(Top) ELSE Top.results
           out == reassemble(results, Top.dims[1], Top.asms[1])
           rest == SubSeq(stack, 1, Len(stack) - 1)
       IN  /\ sawPartial' = (sawPartial \/ (/\ \E i \in DOMAIN results : results[i] = None
                                            /\ \E i \in DOMAIN results : results[i] # None))
           /\ sawOutOfOrder' = (sawOutOfOrder
                                \/ (Len(Top.dims) = 1
                                    /\ \E i \in DOMAIN Top.order : Top.order[i] # i))
           /\ IF out.err # ""
              THEN pc' = "done" /\ stack' = <<>>
                   /\ result' = Some([err |-> out.err, val |-> None])
              ELSE IF rest = <<>>
              THEN pc' = "done" /\ stack' = <<>>
                   /\ result' = Some([err |-> "", val |-> out.val])
              ELSE /\ pc' = pc /\ result' = result
                   /\ stack' = [rest EXCEPT ![Len(rest)] =
                                   [@ EXCEPT !.results = Append(@, out.val)]]
    /\ UNCHANGED call

\* ------------------------------------------------------------------------
\* Specifications
\* ------------------------------------------------------------------------
CorrIdle == CorrelationInit
OpIdle == CombineInit
ApplyIdle == ApplyInit

\* One XarrayRegression instance under any sequence of fit and predict calls.
InitRegression == RegressionInit /\ CorrIdle /\ OpIdle /\ ApplyIdle

NextRegression ==
    \/ \E source \in Sources, target \in Targets :
          Fit(source, target) /\ UNCHANGED <<corrCall, opCall, applyVars>>
    \/ \E source \in Sources :
          Predict(source) /\ UNCHANGED <<corrCall, opCall, applyVars>>

SpecRegression == InitRegression /\ [][NextRegression]_vars

RegressionIdle ==
    /\ target_neuroid_values = None
    /\ regression = [fit_calls |-> 0, predict_calls |-> 0, fitted_with |-> None]
    /\ lastCall = NoCall
    /\ lastCompleted = None
    /\ nCalls = 0
    /\ fitCalled = FALSE

regressionVars == <<target_neuroid_values, regression, lastCall, lastCompleted, nCalls, fitCalled>>

\* One XarrayCorrelation call on any prediction and target of the pools.
InitCorrelation == CorrelationInit /\ RegressionIdle /\ OpIdle /\ ApplyIdle

NextCorrelation ==
    \E prediction \in CorrPredictions, target \in CorrTargets :
        Correlate(prediction, target) /\ UNCHANGED <<regressionVars, opCall, applyVars>>

SpecCorrelation == InitCorrelation /\ [][NextCorrelation]_vars

\* One recursive_op call on one operand (default op) or on two (a sum).
InitCombine == CombineInit /\ RegressionIdle /\ CorrIdle /\ ApplyIdle

NextCombine ==
    \/ \E x \in Operands :
          Combine(<<x>>, "identity") /\ UNCHANGED <<regressionVars, corrCall, applyVars>>
    \/ \E x \in Operands, y \in Operands :
          Combine(<<x, y>>, "add") /\ UNCHANGED <<regressionVars, corrCall, applyVars>>

SpecCombine == InitCombine /\ [][NextCombine]_vars

\* One apply_over_dims call, with its worker pool.
InitApply == ApplyInit /\ RegressionIdle /\ CorrIdle /\ OpIdle

NextApply ==
    \/ \E callable \in Callables, asm \in ApplyInputs, dims \in WalkedDims, njobs \in 1..MaxJobs :
          ApplyCall(callable, <<asm>>, dims, njobs) /\ UNCHANGED <<regressionVars, corrCall, opCall>>
    \/ Descend /\ UNCHANGED <<regressionVars, corrCall, opCall>>
    \/ Dispatch /\ UNCHANGED <<regressionVars, corrCall, opCall>>
    \/ \E s \in 1..(NumStimuli + NumNeuroids) :
          Complete(s) /\ UNCHANGED <<regressionVars, corrCall, opCall>>
    \/ Return /\ UNCHANGED <<regressionVars, corrCall, opCall>>

SpecApply == InitApply /\ [][NextApply]_vars

\* ------------------------------------------------------------------------
\* Claims about XarrayRegression (checked under SpecRegression)
\* ------------------------------------------------------------------------
Mismatched(a) == SeqToSet(a[1].dims) # SeqToSet(expected_dims)

\* C1: whenever the axis-name set of a tensor passed to fit (source or target)
\* or to predict (source) differs from expected_dims, the call fails with the
\* axis-mismatch error (the failed assert of _align) and the wrapped strategy's
\* fit/predict was not invoked during that call.
C1_MismatchFailsBeforeDelegation ==
    /\ (lastCall.op = "fit" /\ (Mismatched(lastCall.source) \/ Mismatched(lastCall.target)))
          => (lastCall.err = "AssertionError" /\ ~lastCall.fit_invoked
              /\ ~lastCall.predict_invoked)
    /\ (lastCall.op = "predict" /\ Mismatched(lastCall.source))
          => (lastCall.err = "AssertionError" /\ ~lastCall.fit_invoked
              /\ ~lastCall.predict_invoked /\ lastCall.out = None)

\* C1 witness: a fit whose source matches and whose target does not has failed,
\* and a strategy that was fitted before has still been fitted only once.
C1_Witness ==
    /\ lastCall.op = "fit"
    /\ ~Mismatched(lastCall.source) /\ Mismatched(lastCall.target)
    /\ lastCall.err = "AssertionError"
    /\ regression.fit_calls = 1

\* C2: predict on an instance on which fit was never called, with a source whose
\* axes match, fails with the unfitted-model error (the TypeError of
\* len(None)) and returns no tensor.
C2_PredictBeforeFitFails ==
    (lastCall.op = "predict" /\ ~fitCalled /\ ~Mismatched(lastCall.source))
        => (lastCall.err = "TypeError" /\ lastCall.out = None)

\* C2 witness: such a predict has happened (and reached the strategy first).
C2_Witness ==
    /\ lastCall.op = "predict" /\ ~fitCalled /\ ~Mismatched(lastCall.source)
    /\ lastCall.err = "TypeError" /\ lastCall.predict_invoked

\* C3: every successful predict returns a tensor whose neuroid-axis coordinates
\* (names and labels) are exactly those of the target of the most recent fit
\* that completed; a fit that fails does not change what later predicts return.
C3_PredictReturnsLastCompletedFit ==
    (lastCall.op = "predict" /\ lastCall.err = "")
        => /\ lastCompleted # None
           /\ CoordsOn(lastCall.out[1], neuroid_dim) = NeuroidCoordsOf(lastCompleted[1])

\* C4: the returned tensor's axis is called neuroid_dim whatever the number of
\* captured coordinates; with exactly one, the coordinate's name is the axis
\* name of the intermediate tensor only, and the returned tensor has the axis
\* neuroid_dim with exactly that coordinate on it.
C4_OutputAxisIsNeuroidDim ==
    (lastCall.op = "predict" /\ lastCall.err = "")
        => LET captured == target_neuroid_values[1]
               out == lastCall.out[1]
               mid == lastCall.intermediate[1]
           IN  /\ neuroid_dim \in SeqToSet(out.dims)
               /\ SeqToSet(out.dims) = SeqToSet(expected_dims)
               /\ Cardinality(DOMAIN captured) = 1 =>
                     LET name == CHOOSE n \in DOMAIN captured : TRUE
                     IN  /\ name \in SeqToSet(mid.dims)
                         /\ neuroid_dim \notin SeqToSet(mid.dims)
                         /\ name \notin SeqToSet(out.dims)
                         /\ CoordsOn(out, neuroid_dim) = captured
               /\ Cardinality(DOMAIN captured) # 1 => mid.dims = out.dims

\* C4 witness: a predict has succeeded with exactly one captured coordinate.
C4_Witness ==
    /\ lastCall.op = "predict" /\ lastCall.err = ""
    /\ Cardinality(DOMAIN target_neuroid_values[1]) = 1
    /\ CoordsOn(lastCall.out[1], neuroid_dim) = target_neuroid_values[1]

\* ------------------------------------------------------------------------
\* Claims about XarrayCorrelation (checked under SpecCorrelation)
\* ------------------------------------------------------------------------
\* The entry of an assembly for the stimulus labelled s and the neuroid labelled n.
ValueAt(a, s, n) ==
    LET i == IndexOf(CoordNamed(a, correlation_coord)[1].values, s)
        j == IndexOf(CoordNamed(a, neuroid_coord)[1].values, n)
    IN  a.data[[k \in DOMAIN a.dims |-> IF a.dims[k] = "presentation" THEN i ELSE j]]

\* The two assemblies carry the same stimulus labels and the same neuroid
\* labels, so their label sequences are pointwise equal once sorted.
LabelsAgree(a, b) ==
    /\ Range(CoordNamed(a, correlation_coord)[1].values)
          = Range(CoordNamed(b, correlation_coord)[1].values)
    /\ Range(CoordNamed(a, neuroid_coord)[1].values)
          = Range(CoordNamed(b, neuroid_coord)[1].values)

\* The statistic the strategy yields for neuroid n: computed from the entries
\* of the two call arguments looked up by label.
StatisticFor(c, n) ==
    LET stim == CoordNamed(c.target, correlation_coord)[1].values
    IN  SumSeq([k \in DOMAIN stim |->
                   ValueAt(c.target, stim[k], n) * ValueAt(c.prediction, stim[k], n)])

\* C7: on a prediction and target whose labels agree after sorting, the result
\* has one entry per index of the collapse axis and that axis only; entry i is
\* the statistic (first value) of the strategy on the two slices at index i,
\* i.e. for the neuroid labelled by the result at i; the p-value (second value)
\* is nowhere in the result; the result carries exactly the target's
\* coordinates that lie on the collapsed axis.
C7_OneStatisticPerNeuroid ==
    (corrCall # None /\ LabelsAgree(corrCall[1].prediction, corrCall[1].target))
        => LET c == corrCall[1]
               out == c.out[1]
               onAxis == SelectSeq(c.target.coords, LAMBDA x : x.dims = <<"neuroid">>)
               ids == out.coords[neuroid_coord].values
           IN  /\ c.err = ""
               /\ out.dims = CoordNamed(c.target, neuroid_coord)[1].dims
               /\ Len(out.values) = c.target.sizes["neuroid"]
               /\ DOMAIN out.coords = {onAxis[i].name : i \in DOMAIN onAxis}
               /\ \A x \in DOMAIN out.coords :
                     /\ out.coords[x].dims = out.dims
                     /\ Len(out.coords[x].values) = Len(out.values)
               /\ Range(ids) = Range(CoordNamed(c.target, neuroid_coord)[1].values)
               /\ \A i \in DOMAIN out.values :
                     /\ out.values[i] = StatisticFor(c, ids[i])
                     /\ out.coords["region"].values[i] = RegionOf(ids[i])
                     /\ \A j \in DOMAIN out.values :
                           out.values[i] # -1 - StatisticFor(c, ids[j])

\* C7 witness: a call succeeded on a target stored in descending label order
\* along both axes and a prediction stored in another order and layout.
C7_Witness ==
    /\ corrCall # None
    /\ corrCall[1].err = ""
    /\ LET t == corrCall[1].target
           q == corrCall[1].prediction
       IN  /\ CoordNamed(t, correlation_coord)[1].values[1] = NStim
           /\ CoordNamed(t, neuroid_coord)[1].values[1] = NNeur
           /\ CoordNamed(q, neuroid_coord)[1].values[1] = 1
           /\ q.dims # t.dims
    /\ Len(corrCall[1].out[1].values) = NNeur

\* ------------------------------------------------------------------------
\* Claims about recursive_op (checked under SpecCombine)
\* ------------------------------------------------------------------------
\* The operands have the same attribute names at every depth.
RECURSIVE SameKeySets(_)
SameKeySets(arrs) ==
    /\ \A i \in DOMAIN arrs : DOMAIN arrs[i].attrs = DOMAIN arrs[1].attrs
    /\ \A a \in DOMAIN arrs[1].attrs :
          (\A i \in DOMAIN arrs : arrs[i].attrs[a].isDataArray)
              => SameKeySets([i \in DOMAIN arrs |-> arrs[i].attrs[a]])

\* C9: recursive_op fails (the attribute-tree mismatch error) whenever the
\* operands do not all have the same attribute names at some depth, whether a
\* later operand lacks a name of the first or has a name the first lacks; it
\* returns a combined tensor only when the key sets are identical at every depth.
C9_MismatchedKeySetsFail ==
    opCall # None => (opCall[1].err = "" <=> SameKeySets(opCall[1].arrs))

\* ------------------------------------------------------------------------
\* Claims about apply_over_dims (checked under SpecApply)
\* ------------------------------------------------------------------------
Input == call[1].asms[1]
Walked == call[1].dims
Returned == result[1].val[1]

\* The entry of the input at the position given, by dim name, by the index idx
\* of a tensor whose dims are `dims` (dims of the input missing there: index 1).
InputAt(dims, idx) ==
    Input.data[[k \in DOMAIN Input.dims |->
                   IF Input.dims[k] \in SeqToSet(dims)
                   THEN idx[IndexOf(dims, Input.dims[k])] ELSE 1]]

\* The sum of the input slice at index w of the walked dims.
SliceSum(w) ==
    SumSet(Input.data,
           {idx \in DOMAIN Input.data :
               \A k \in DOMAIN Walked : idx[IndexOf(Input.dims, Walked[k])] = w[k]})

\* The tensor has exactly the walked dims, in the walked order, with the
\* input's sizes and the input's labels in their original order.
OnWalkedAxes(t) ==
    /\ t.dims = Walked
    /\ DOMAIN t.data = Idx(Shape(Walked, Input.sizes))
    /\ DOMAIN t.labels = SeqToSet(Walked)
    /\ \A d \in SeqToSet(Walked) : t.labels[d] = Input.labels[d] /\ t.sizes[d] = Input.sizes[d]

\* C5: when every invocation returns a result, then whatever the order in
\* which the pool finished the invocations, the entry at position i along each
\* walked axis of the output is the result computed from the input slice at
\* index i, and the labels of the axis are the input's labels in their order.
C5_OutputFollowsInputIndex ==
    (pc = "done" /\ call[1].callable \in {"sum", "annotate", "identity"})
        => /\ call[1].callable \in {"sum", "annotate"} =>
                 /\ result[1].err = "" /\ result[1].val # None
                 /\ OnWalkedAxes(Returned)
                 /\ \A w \in DOMAIN Returned.data : Returned.data[w] = SliceSum(w)
           /\ call[1].callable = "annotate" =>
                 /\ DOMAIN Returned.attrs = {"first"}
                 /\ OnWalkedAxes(Returned.attrs["first"])
                 /\ \A w \in DOMAIN Returned.data :
                       Returned.attrs["first"].data[w] = InputAt(Walked, w)
           /\ (call[1].callable = "identity" /\ result[1].err = "") =>
                 /\ result[1].val # None
                 /\ \A d \in SeqToSet(Walked) : Returned.labels[d] = Input.labels[d]
                 /\ \A idx \in DOMAIN Returned.data :
                       Returned.data[idx] = InputAt(Returned.dims, idx)

\* C5 witness: axes [stimulus(3), neuroid(2)], values [[1,2],[3,4],[5,6]],
\* the sum over the stimulus axis, finished out of index order: [3, 7, 11].
C5_Witness ==
    /\ pc = "done" /\ call[1].callable = "sum" /\ Walked = <<"stimulus">>
    /\ Input.dims = <<"stimulus", "neuroid">>
    /\ Input.data = [idx \in Idx(<<3, 2>>) |-> 2 * (idx[1] - 1) + idx[2]]
    /\ sawOutOfOrder
    /\ result[1].err = ""
    /\ Returned.data = [idx \in Idx(<<3>>) |-> 4 * idx[1] - 1]
    /\ Returned.labels["stimulus"] = <<10, 20, 30>>

\* Two tensors with the same axes (in any order), sizes, labels, entries and
\* attribute tree.
RECURSIVE SameStructure(_, _)
SameStructure(a, b) ==
    IF ~a.isDataArray \/ ~b.isDataArray THEN a = b
    ELSE /\ SeqToSet(a.dims) = SeqToSet(b.dims)
         /\ Len(a.dims) = Len(b.dims)
         /\ a.sizes = b.sizes
         /\ a.labels = b.labels
         /\ DOMAIN a.data = Idx(ShapeOf(a))
         /\ \A idx \in DOMAIN a.data :
               a.data[idx] = b.data[[k \in DOMAIN b.dims |-> idx[IndexOf(a.dims, b.dims[k])]]]
         /\ DOMAIN a.attrs = DOMAIN b.attrs
         /\ \A k \in DOMAIN a.attrs : SameStructure(a.attrs[k], b.attrs[k])

\* C6 (as claimed): with a callable that returns its slice unchanged the output
\* has the same dims, coordinate values and attribute tree as the input, for
\* every input (also one with nested attribute tensors) and every list of axes.
C6_IdentityIsStructuralIdentity ==
    (pc = "done" /\ call[1].callable = "identity"
        /\ \A k \in DOMAIN Input.attrs : Input.attrs[k].isDataArray)
        => /\ result[1].err = "" /\ result[1].val # None
           /\ SameStructure(Returned, Input)

\* The attribute v of the input, repeated along the walked axes: the walked
\* dims lead, labelled as in the input; v's own attrs are unchanged.
RepeatedAlongWalked(out, v) ==
    /\ out.dims = Walked \o v.dims
    /\ out.sizes = [d \in SeqToSet(out.dims) |->
                       IF d \in SeqToSet(Walked) THEN Input.sizes[d] ELSE v.sizes[d]]
    /\ out.labels = [d \in SeqToSet(Walked) \cup DOMAIN v.labels |->
                        IF d \in SeqToSet(Walked) THEN Input.labels[d] ELSE v.labels[d]]
    /\ DOMAIN out.data = Idx(ShapeOf(out))
    /\ \A idx \in DOMAIN out.data :
          out.data[idx] = v.data[SubSeq(idx, Len(Walked) + 1, Len(idx))]
    /\ out.attrs = v.attrs

\* C6 (amended): with the identity callable, an input without attributes comes
\* back with the same axes (the walked ones moved to the front), labels and
\* entries; with attribute tensors that have no walked axis the same holds for
\* the tensor and the attribute names, but every attribute tensor comes back
\* repeated along the walked axes; the call fails when an attribute is not a
\* tensor or has a walked axis.
C6_IdentityUpToAttributes ==
    (pc = "done" /\ call[1].callable = "identity")
        => LET names == DOMAIN Input.attrs
               notArray == \E k \in names : ~Input.attrs[k].isDataArray
               clash == \E k \in names :
                           /\ Input.attrs[k].isDataArray
                           /\ SeqToSet(Input.attrs[k].dims) \cap SeqToSet(Walked) # {}
           IN  IF notArray THEN result[1].err = "AssertionError"
               ELSE IF clash THEN result[1].err = "ValueError"
               ELSE /\ result[1].err = "" /\ result[1].val # None
                    /\ Returned.dims
                          = Walked \o SelectSeq(Input.dims, LAMBDA d : d \notin SeqToSet(Walked))
                    /\ SameStructure([Returned EXCEPT !.attrs = NoAttrs],
                                     [Input EXCEPT !.attrs = NoAttrs])
                    /\ Returned.scalars = NoScalars
                    /\ DOMAIN Returned.attrs = names
                    /\ \A k \in names : RepeatedAlongWalked(Returned.attrs[k], Input.attrs[k])

\* C6 witness: the identity callable has been applied, over two axes in another
\* order than the input's, to an input with a nested attribute tensor.
C6_Witness ==
    /\ pc = "done" /\ call[1].callable = "identity" /\ result[1].err = ""
    /\ Walked = <<"neuroid", "stimulus">> /\ "meta" \in DOMAIN Input.attrs
    /\ Returned.dims = Walked /\ Input.dims # Walked
    /\ Returned.attrs["meta"].dims = Walked \o <<"feature">>
    /\ "unit" \in DOMAIN Returned.attrs["meta"].attrs

\* C8: with a callable that returns None for every slice the call returns None,
\* for one walked axis or more: a level whose invocations or sub-levels all
\* return None returns None, up to the top-level call, without raising.
C8_AllNoneGivesNone ==
    (pc = "done" /\ call[1].callable = "none")
        => result = Some([err |-> "", val |-> None])

\* C8 witness: such a call over two walked axes has returned.
C8_Witness ==
    /\ pc = "done" /\ call[1].callable = "none" /\ Len(Walked) = 2
    /\ result[1].val = None /\ result[1].err = ""

\* C10: when at some level some but not all results are None, the call
\* succeeds: the None entries are dropped and the level's output is a tensor on
\* the level's axis that carries the axis's original labels.
C10_PartialNoneSucceeds ==
    (pc = "done" /\ sawPartial)
        => /\ result[1].err = "" /\ result[1].val # None
           /\ \A d \in SeqToSet(Walked) :
                 d \in DOMAIN Returned.labels /\ Returned.labels[d] = Input.labels[d]

====
